---- MODULE Spec2Model ----
(***************************************************************************)
(* Model of media-date-organiser.py: the filename date parser, the         *)
(* metadata date resolver and the run driver (main / process_files) that   *)
(* files every .jpg / .mp4 of the media root into output/photos,           *)
(* output/videos or output/failed.                                         *)
(*                                                                         *)
(* Python strings are modelled as sequences of one-character strings, so   *)
(* that split, strip, lower, endswith, re.match and strptime are computed  *)
(* character by character as the interpreter computes them.                *)
(***************************************************************************)
EXTENDS Integers, Sequences, FiniteSets, TLC

(***************************************************************************)
(* Python string primitives                                                *)
(***************************************************************************)
Digits == {"0", "1", "2", "3", "4", "5", "6", "7", "8", "9"}

NonZeroDigits == Digits \ {"0"}

DigitVal(c) ==
    CASE c = "0" -> 0 [] c = "1" -> 1 [] c = "2" -> 2 [] c = "3" -> 3
      [] c = "4" -> 4 [] c = "5" -> 5 [] c = "6" -> 6 [] c = "7" -> 7
      [] c = "8" -> 8 [] c = "9" -> 9 [] OTHER -> 0

\* int(text) of a run of digits; a blank counts for nothing (the " 7" day form).
RECURSIVE ToInt(_)
ToInt(s) ==
    IF s = <<>> THEN 0
    ELSE 10 * ToInt(SubSeq(s, 1, Len(s) - 1)) + DigitVal(s[Len(s)])

LowerMap ==
    ("A" :> "a") @@ ("B" :> "b") @@ ("C" :> "c") @@ ("D" :> "d") @@ ("E" :> "e") @@ ("F" :> "f") @@ ("G" :> "g") @@ ("H" :> "h") @@ ("I" :> "i") @@ ("J" :> "j") @@ ("K" :> "k") @@ ("L" :> "l") @@ ("M" :> "m") @@ ("N" :> "n") @@ ("O" :> "o") @@ ("P" :> "p") @@ ("Q" :> "q") @@ ("R" :> "r") @@ ("S" :> "s") @@ ("T" :> "t") @@ ("U" :> "u") @@ ("V" :> "v") @@ ("W" :> "w") @@ ("X" :> "x") @@ ("Y" :> "y") @@ ("Z" :> "z")

\* str.lower()
lower(s) == [i \in 1..Len(s) |-> IF s[i] \in DOMAIN LowerMap THEN LowerMap[s[i]] ELSE s[i]]

\* str.endswith(suffix)
endswith(s, suffix) ==
    /\ Len(s) >= Len(suffix)
    /\ SubSeq(s, Len(s) - Len(suffix) + 1, Len(s)) = suffix

\* s.split(sep)[0] for a one-character separator: the text before its first occurrence.
SplitFirst(s, sep) ==
    IF \E i \in 1..Len(s) : s[i] = sep
    THEN SubSeq(s, 1, (CHOOSE i \in 1..Len(s) : s[i] = sep /\ \A j \in 1..(i - 1) : s[j] # sep) - 1)
    ELSE s

\* str.strip(): leading and trailing blanks removed.
strip(s) ==
    IF \A i \in 1..Len(s) : s[i] = " " THEN <<>>
    ELSE LET a == CHOOSE i \in 1..Len(s) : s[i] # " " /\ \A j \in 1..(i - 1) : s[j] = " "
             b == CHOOSE i \in 1..Len(s) : s[i] # " " /\ \A j \in (i + 1)..Len(s) : s[j] = " "
         IN SubSeq(s, a, b)

\* os.path.splitext(name)[0]: the name up to its last dot; leading dots begin no extension.
splitext_stem(name) ==
    LET dots == {i \in 1..Len(name) : name[i] = "." /\ \E j \in 1..(i - 1) : name[j] # "."}
    IN IF dots = {} THEN name
       ELSE SubSeq(name, 1, (CHOOSE i \in dots : \A j \in dots : j <= i) - 1)

(***************************************************************************)
(* datetime and datetime.strptime                                          *)
(***************************************************************************)
\* Python's None.
None == [none |-> TRUE]

\* The outcome of a strptime call that raised ValueError.
ValueError == [raised |-> "ValueError"]

IsLeap(y) == (y % 4 = 0 /\ y % 100 # 0) \/ y % 400 = 0

DaysInMonth(y, m) ==
    IF m \in {4, 6, 9, 11} THEN 30
    ELSE IF m = 2 THEN (IF IsLeap(y) THEN 29 ELSE 28)
    ELSE 31

\* datetime(y, m, d, H, M, S): the constructor raises ValueError outside its ranges.
datetime(y, m, d, H, M, S) ==
    IF /\ y \in 1..9999
       /\ m \in 1..12
       /\ d \in 1..DaysInMonth(y, m)
       /\ H \in 0..23
       /\ M \in 0..59
       /\ S \in 0..59
    THEN [year |-> y, month |-> m, day |-> d, hour |-> H, minute |-> M, second |-> S]
    ELSE ValueError

Directives == {"%Y", "%m", "%d", "%H", "%M", "%S"}

\* Position of a directive's value in a match: <<Y, m, d, H, M, S, end>>.
DirIndex(dir) ==
    CASE dir = "%Y" -> 1 [] dir = "%m" -> 2 [] dir = "%d" -> 3
      [] dir = "%H" -> 4 [] dir = "%M" -> 5 [] dir = "%S" -> 6

\* The regular expression strptime compiles a directive to: its alternatives in
\* order, each a sequence of character classes.
DirectiveRegex(dir) ==
    CASE dir = "%Y" -> << <<Digits, Digits, Digits, Digits>> >>
      [] dir = "%m" -> << <<{"1"}, {"0", "1", "2"}>>, <<{"0"}, NonZeroDigits>>, <<NonZeroDigits>> >>
      [] dir = "%d" -> << <<{"3"}, {"0", "1"}>>, <<{"1", "2"}, Digits>>, <<{"0"}, NonZeroDigits>>,
                          <<NonZeroDigits>>, <<{" "}, NonZeroDigits>> >>
      [] dir = "%H" -> << <<{"2"}, {"0", "1", "2", "3"}>>, <<{"0", "1"}, Digits>>, <<Digits>> >>
      [] dir = "%M" -> << <<{"0", "1", "2", "3", "4", "5"}, Digits>>, <<Digits>> >>
      [] dir = "%S" -> << <<{"6"}, {"0", "1"}>>, <<{"0", "1", "2", "3", "4", "5"}, Digits>>, <<Digits>> >>

\* One alternative matches s at position i.
AltMatches(alt, s, i) ==
    /\ i + Len(alt) - 1 <= Len(s)
    /\ \A j \in 1..Len(alt) : s[i + j - 1] \in alt[j]

\* No match of the compiled format.
NoMatch == <<>>

\* The number of blanks of s from position i on.
RECURSIVE BlankRun(_, _)
BlankRun(s, i) == IF i <= Len(s) /\ s[i] = " " THEN 1 + BlankRun(s, i + 1) ELSE 0

\* The backtracking match of format tokens k.. against s from position i, as
\* re.match finds it: the first alternative that lets the rest match wins, and a
\* blank of the format is \s+ (greedy). The result carries found.end().
RECURSIVE MatchFrom(_, _, _, _, _), TryAlts(_, _, _, _, _, _), TryBlanks(_, _, _, _, _, _)
MatchFrom(fmt, k, s, i, acc) ==
    IF k > Len(fmt) THEN [acc EXCEPT ![7] = i - 1]
    ELSE IF fmt[k] \in Directives THEN TryAlts(fmt, k, s, i, acc, 1)
    ELSE IF fmt[k] = " " THEN TryBlanks(fmt, k, s, i, acc, BlankRun(s, i))
    ELSE IF i <= Len(s) /\ s[i] = fmt[k] THEN MatchFrom(fmt, k + 1, s, i + 1, acc)
    ELSE NoMatch

TryAlts(fmt, k, s, i, acc, a) ==
    LET alts == DirectiveRegex(fmt[k])
    IN IF a > Len(alts) THEN NoMatch
       ELSE IF AltMatches(alts[a], s, i)
            THEN LET n    == Len(alts[a])
                     text == SelectSeq(SubSeq(s, i, i + n - 1), LAMBDA c : c # " ")
                     rest == MatchFrom(fmt, k + 1, s, i + n,
                                       [acc EXCEPT ![DirIndex(fmt[k])] = ToInt(text)])
                 IN IF rest # NoMatch THEN rest ELSE TryAlts(fmt, k, s, i, acc, a + 1)
            ELSE TryAlts(fmt, k, s, i, acc, a + 1)

TryBlanks(fmt, k, s, i, acc, n) ==
    IF n < 1 THEN NoMatch
    ELSE LET rest == MatchFrom(fmt, k + 1, s, i + n, acc)
         IN IF rest # NoMatch THEN rest ELSE TryBlanks(fmt, k, s, i, acc, n - 1)

\* datetime.strptime(s, fmt): ValueError when the format does not match, when
\* unconverted data remains, or when the fields are no datetime.
strptime(s, fmt) ==
    LET found == MatchFrom(fmt, 1, s, 1, <<0, 0, 0, 0, 0, 0, 0>>)
    IN IF found = NoMatch THEN ValueError
       ELSE IF found[7] # Len(s) THEN ValueError
       ELSE datetime(found[1], found[2], found[3], found[4], found[5], found[6])

\* "%Y-%m-%d %H:%M:%S"
FmtHyphen == <<"%Y", "-", "%m", "-", "%d", " ", "%H", ":", "%M", ":", "%S">>

\* "%Y:%m:%d %H:%M:%S"
FmtColon == <<"%Y", ":", "%m", ":", "%d", " ", "%H", ":", "%M", ":", "%S">>

\* "%Y:%m:%d %H:%M:%SZ"
FmtColonZ == <<"%Y", ":", "%m", ":", "%d", " ", "%H", ":", "%M", ":", "%S", "Z">>

(***************************************************************************)
(* extract_date_from_filename                                              *)
(***************************************************************************)
\* re.fullmatch in place of re.match: nothing may follow the digits.
FilenamePatternFullMatches(filename) ==
    /\ Len(filename) >= 16
    /\ SubSeq(filename, 1, 3) \in {<<"I", "M", "G">>, <<"V", "I", "D">>, <<"P", "T", "V">>}
    /\ filename[4] = "-"
    /\ \A i \in 5..12 : filename[i] \in Digits
    /\ SubSeq(filename, 13, 15) = <<"-", "W", "A">>
    /\ \A i \in 16..Len(filename) : filename[i] \in Digits

FilenameTags == {<<"I", "M", "G">>, <<"V", "I", "D">>, <<"P", "T", "V">>}

\* re.match(r'(?:IMG|VID|PTV)-(\d{4})(\d{2})(\d{2})-WA\d+', filename): anchored at
\* the start of the name only.
FilenamePatternMatches(filename) ==
    /\ Len(filename) >= 16
    /\ SubSeq(filename, 1, 3) \in FilenameTags
    /\ filename[4] = "-"
    /\ \A i \in 5..12 : filename[i] \in Digits
    /\ SubSeq(filename, 13, 15) = <<"-", "W", "A">>
    /\ filename[16] \in Digits

extract_date_from_filename(filename) ==
    IF FilenamePatternMatches(filename)
    THEN LET year  == SubSeq(filename, 5, 8)
             month == SubSeq(filename, 9, 10)
             day   == SubSeq(filename, 11, 12)
             d     == strptime(year \o <<"-">> \o month \o <<"-">> \o day
                                 \o <<" ", "1", "5", ":", "0", "0", ":", "0", "0">>, FmtHyphen)
         IN IF d = ValueError THEN None ELSE d
    ELSE None

(***************************************************************************)
(* The metadata date resolver (the field loop of process_files)            *)
(***************************************************************************)
\* date_fields of the photo pass, in order of preference.
PhotoDateFields ==
    <<"DateTimeOriginal", "CreateDate", "SubSecDateTimeOriginal", "SubSecCreateDate",
      "SubSecModifyDate", "ModifyDate", "FileModifyDate">>

\* date_fields of the video pass.
VideoDateFields ==
    <<"CreationDate", "DateTimeOriginal", "CreateDate", "MediaCreateDate", "TrackCreateDate",
      "ModifyDate", "MediaModifyDate", "TrackModifyDate", "FileModifyDate">>

date_fields(class) == IF class = "photo" THEN PhotoDateFields ELSE VideoDateFields

\* The formats each pass tries, in order.
date_formats(class) ==
    IF class = "photo" THEN <<FmtColon, FmtHyphen>> ELSE <<FmtColon, FmtHyphen, FmtColonZ>>

\* The fractional seconds are not removed.
date_str_parts_kept(date_str_raw) == date_str_raw

\* date_str_raw.split('.')[0]
date_str_parts(date_str_raw) == SplitFirst(date_str_raw, ".")

\* date_str_parts.split('+')[0].split('-')[0].split('Z')[0].strip()
date_str_clean(date_str_raw) ==
    strip(SplitFirst(SplitFirst(SplitFirst(date_str_parts(date_str_raw), "+"), "-"), "Z"))

\* The parsed time of day is kept.
replace_time_omitted(d) == d

\* date.replace(hour=15, minute=0, second=0, microsecond=0)
replace_time(d) == [d EXCEPT !.hour = 15, !.minute = 0, !.second = 0]

\* The loop over the formats: the first format that parses gives the date.
RECURSIVE parse_date_string(_, _, _)
parse_date_string(clean, fmts, k) ==
    IF k > Len(fmts) THEN None
    ELSE LET d == strptime(clean, fmts[k])
         IN IF d # ValueError THEN replace_time(d) ELSE parse_date_string(clean, fmts, k + 1)

\* `field in metadata and metadata[field]`: present and not the empty string.
FieldUsable(metadata, field) == field \in DOMAIN metadata /\ metadata[field] # <<>>

\* The loop over date_fields without its `if date: break`: the last field that
\* yields a date gives it.
RECURSIVE scan_date_fields_no_break(_, _, _, _)
scan_date_fields_no_break(metadata, fields, fmts, k) ==
    IF k > Len(fields) THEN None
    ELSE LET later == scan_date_fields_no_break(metadata, fields, fmts, k + 1)
             d     == IF FieldUsable(metadata, fields[k])
                      THEN parse_date_string(date_str_clean(metadata[fields[k]]), fmts, 1)
                      ELSE None
         IN IF later # None THEN later ELSE d

\* The loop over date_fields from position k: the first field that yields a date
\* ends it.
RECURSIVE scan_date_fields(_, _, _, _)
scan_date_fields(metadata, fields, fmts, k) ==
    IF k > Len(fields) THEN None
    ELSE IF FieldUsable(metadata, fields[k])
         THEN LET d == parse_date_string(date_str_clean(metadata[fields[k]]), fmts, 1)
              IN IF d # None THEN d ELSE scan_date_fields(metadata, fields, fmts, k + 1)
         ELSE scan_date_fields(metadata, fields, fmts, k + 1)

\* The date the metadata of a file of the class resolves to, or None.
resolve_metadata_date(metadata, class) ==
    scan_date_fields(metadata, date_fields(class), date_formats(class), 1)

(***************************************************************************)
(* The run driver: main, count_media_files, process_files, write_summary   *)
(***************************************************************************)
VARIABLES
    root,             \* names of the regular files in the media root directory
    out_photos,       \* names present in output/photos
    out_videos,       \* names present in output/videos
    out_failed,       \* names present in output/failed
    summary,          \* content of output/summary.txt
    exiftool_exe,     \* exiftool.exe is a file of the script directory
    exiftool_files,   \* state of the exiftool_files folder
    pc,               \* position of the run
    run,              \* number of the run in progress
    exit_code,        \* <<status>> once the process has exited
    initial_photos,   \* main: result of count_media_files
    initial_videos,
    media_class,      \* the pass process_files is in
    files_in_root,    \* the listing the pass iterates over
    idx,              \* position in the listing
    filename,         \* locals of the loop body
    date,
    success,
    error_message,
    results,          \* the results dictionary
    log,              \* calls made by the run in progress
    failures,         \* ExifTool and filesystem operations that have failed so far
    prev,             \* what the previous run left
    parser_input,     \* inputs and results of the two parsers applied on their own
    parser_result,
    resolver_input,
    resolver_result

fsVars == <<root, out_photos, out_videos, out_failed, summary, exiftool_exe, exiftool_files>>

runVars == <<pc, run, exit_code, initial_photos, initial_videos, media_class, files_in_root,
             idx, filename, date, success, error_message, results, log, failures, prev>>

harnessVars == <<parser_input, parser_result, resolver_input, resolver_result>>

vars == <<fsVars, runVars, harnessVars>>

\* Number of runs of the script in one behaviour.
MaxRuns == 2

\* Number of files in the media root directory before the first run.
MaxSourceFiles == 2

\* Number of files the output directories hold before the first run.
MaxPreFiled == 1

\* Number of ExifTool calls and file moves that fail in one behaviour.
MaxFailures == 1

\* exit_code while the process has not exited; <<s>> once it exited with status s.
NotExited == <<>>

ImgWaJpg == <<"I","M","G","-","2","0","2","3","0","1","1","5","-","W","A","0","0","4","2",".","j","p","g">>

RandomPhotoJpg == <<"r","a","n","d","o","m","_","p","h","o","t","o",".","j","p","g">>

VidWaMp4 == <<"V","I","D","-","2","0","2","1","0","7","0","4","-","W","A","0","0","0","7",".","m","p","4">>

ClipMP4 == <<"c","l","i","p",".","M","P","4">>

NotesTxt == <<"n","o","t","e","s",".","t","x","t">>

\* The file names the directories draw from.
FileNames == {ImgWaJpg, RandomPhotoJpg, VidWaMp4, ClipMP4, NotesTxt}

\* What get_file_metadata can return for a file: None (ExifTool failed or its
\* output was not usable), or the first object of its JSON output.
MetadataOutcomes ==
    { None,
      [SourceFile |-> <<"f">>],
      [SourceFile |-> <<"f">>, DateTimeOriginal |-> <<"2","0","2","2",":","0","6",":","0","1"," ","1","0",":","2","3",":","4","5","+","0","2",":","0","0">>] }

\* `if metadata:` never taken: whatever was read counts as not read.
TruthyNever(metadata) == FALSE

\* `if metadata:` taken for whatever get_file_metadata returned.
TruthyAny(metadata) == TRUE

\* `if metadata:` is false for None and for an empty dictionary.
Truthy(metadata) == metadata # None /\ DOMAIN metadata # {}

Extension(class) == IF class = "photo" THEN <<".", "j", "p", "g">> ELSE <<".", "m", "p", "4">>

\* A pass that takes the media files of both classes.
IsMediaOfAnyClass(name, class) ==
    \/ endswith(lower(name), <<".", "j", "p", "g">>)
    \/ endswith(lower(name), <<".", "m", "p", "4">>)

\* filename.lower().endswith('.jpg') / ('.mp4')
IsMediaOf(name, class) == endswith(lower(name), Extension(class))

\* The count without .lower(): an extension in upper case is not counted.
count_media_files_case_sensitive(dir) ==
    <<Cardinality({f \in dir : endswith(f, <<".", "j", "p", "g">>)}),
      Cardinality({f \in dir : endswith(f, <<".", "m", "p", "4">>)})>>

\* count_media_files: every listed name is a regular file here.
count_media_files(dir) ==
    <<Cardinality({f \in dir : IsMediaOf(f, "photo")}),
      Cardinality({f \in dir : IsMediaOf(f, "video")})>>

\* Listings that can name a file twice and leave another out.
ListingsRepeating(dir) == [1..Cardinality(dir) -> dir]

\* The orders os.listdir can return the names of a directory in.
Listings(dir) ==
    {s \in [1..Cardinality(dir) -> dir] : \A i, j \in 1..Cardinality(dir) : s[i] = s[j] => i = j}

SuccessDir(class) == IF class = "photo" THEN out_photos ELSE out_videos

\* The skip check without the failed directory.
AlreadyInSuccessDir(name, class) == name \in SuccessDir(class)

\* No skip check: every media file of the listing is attempted.
AlreadyInOutputNever(name, class) == FALSE

\* The skip check without the success directory.
AlreadyInFailedDir(name, class) == name \in out_failed

\* The skip check: the name exists in the pass's success directory or in the
\* failed directory.
AlreadyInOutput(name, class) == name \in SuccessDir(class) \/ name \in out_failed

NewResults ==
    [successful |-> <<>>, failed |-> <<>>, total_processed |-> 0, total_success |-> 0,
     total_failed |-> 0, processed_photos |-> 0, processed_videos |-> 0,
     failed_photos |-> 0, failed_videos |-> 0, skipped_already_in_output |-> 0]

\* What the run in progress has done so far: the calls it made (extract, read,
\* write), the moves it carried out (as a set and in order), the moves that raised
\* an error, the source files found missing by a move, the fault met by the file
\* in hand and the faults of the files recorded as failed, in the order of
\* results['failed'].
NewLog ==
    [extract |-> {}, read |-> {}, write |-> {}, move |-> {}, move_errors |-> 0,
     moves |-> <<>>, vanished |-> {}, fault |-> "none", faults |-> <<>>]

NoSummary == [kind |-> "absent"]

\* The text main writes when it finds no media file.
NoFilesSummary == [kind |-> "no media files found"]

\* The text write_summary writes.
SummaryText(res, photos, videos) ==
    [kind       |-> "report",
     considered |-> photos + videos,
     skipped    |-> res.skipped_already_in_output,
     attempted  |-> res.total_processed,
     succeeded  |-> res.total_success,
     failed     |-> res.total_failed,
     photos     |-> <<res.processed_photos, res.failed_photos>>,
     videos     |-> <<res.processed_videos, res.failed_videos>>,
     ok_list    |-> res.successful,
     x_list     |-> res.failed]

all_dependencies_met == exiftool_exe /\ exiftool_files = "populated"

(***************************************************************************)
(* Initial states                                                          *)
(***************************************************************************)
HarnessIdle ==
    /\ parser_input = None
    /\ parser_result = None
    /\ resolver_input = None
    /\ resolver_result = None

RunStart ==
    /\ pc = "check_dependencies"
    /\ exit_code = NotExited
    /\ initial_photos = 0
    /\ initial_videos = 0
    /\ media_class = "photo"
    /\ files_in_root = <<>>
    /\ idx = 1
    /\ filename = <<>>
    /\ date = None
    /\ success = FALSE
    /\ error_message = "Unknown error"
    /\ results = NewResults
    /\ log = NewLog

\* The directories as the first run finds them: any files in the media root,
\* ExifTool installed or not, and names already in the output directories, left by
\* earlier runs or put there by the user. Only names that are also in the media
\* root are drawn for the output directories: the script looks up no other name.
Init ==
    /\ root \in {d \in SUBSET FileNames : Cardinality(d) <= MaxSourceFiles}
    /\ \E filed \in {s \in SUBSET ({"photos", "videos", "failed"} \X root) :
                         Cardinality(s) <= MaxPreFiled} :
          /\ out_photos = {f \in FileNames : <<"photos", f>> \in filed}
          /\ out_videos = {f \in FileNames : <<"videos", f>> \in filed}
          /\ out_failed = {f \in FileNames : <<"failed", f>> \in filed}
    /\ summary = NoSummary
    /\ exiftool_exe \in BOOLEAN
    /\ exiftool_files \in {"missing", "empty", "populated"}
    /\ run = 1
    /\ failures = 0
    /\ prev = [outcome |-> "none"]
    /\ RunStart
    /\ HarnessIdle

(***************************************************************************)
(* main                                                                    *)
(***************************************************************************)
\* main, up to the dependency check: sys.exit(1) when exiftool.exe or a
\* populated exiftool_files folder is missing.
main_check_dependencies ==
    /\ pc = "check_dependencies"
    /\ IF all_dependencies_met
       THEN pc' = "count" /\ UNCHANGED exit_code
       ELSE pc' = "exited" /\ exit_code' = <<1>>
    /\ UNCHANGED <<fsVars, run, initial_photos, initial_videos, media_class, files_in_root, idx,
                   filename, date, success, error_message, results, log, failures, prev, harnessVars>>

\* sys.exit(1) in place of sys.exit(0).
NoFilesExitStatusOne == <<1>>

\* The status main exits with when it found no media file.
NoFilesExitStatus == <<0>>

\* main: create_folders (the output directories exist from here on),
\* count_media_files, and the exit when there is nothing to process.
main_count_media_files ==
    /\ pc = "count"
    /\ initial_photos' = count_media_files(root)[1]
    /\ initial_videos' = count_media_files(root)[2]
    /\ IF initial_photos' = 0 /\ initial_videos' = 0
       THEN /\ summary' = NoFilesSummary
            /\ exit_code' = NoFilesExitStatus
            /\ pc' = "exited"
       ELSE /\ pc' = "list"
            /\ UNCHANGED <<summary, exit_code>>
    /\ UNCHANGED <<root, out_photos, out_videos, out_failed, exiftool_exe, exiftool_files,
                   run, media_class, files_in_root, idx, filename, date, success,
                   error_message, results, log, failures, prev, harnessVars>>

\* main: write_summary(results) with the initial counts added, and the end of the script.
main_write_summary ==
    /\ pc = "summary"
    /\ summary' = SummaryText(results, initial_photos, initial_videos)
    /\ pc' = "done"
    /\ exit_code' = <<0>>
    /\ UNCHANGED <<root, out_photos, out_videos, out_failed, exiftool_exe, exiftool_files,
                   run, initial_photos, initial_videos, media_class, files_in_root, idx,
                   filename, date, success, error_message, results, log, failures, prev, harnessVars>>

\* What a finished run leaves for the comparison with the next one.
RunRecord ==
    [outcome     |-> pc,
     summary     |-> summary,
     attempted   |-> results.total_processed,
     move_errors |-> log.move_errors,
     moved       |-> (IF run = 1 THEN {} ELSE prev.moved) \cup {m[1] : m \in log.move}]

\* The process is killed between two operations of process_files or before the
\* summary is written: nothing is undone and nothing more is done.
run_interrupted ==
    /\ pc \in {"list", "loop", "resolve", "write", "move", "record", "summary"}
    /\ pc' = "interrupted"
    /\ UNCHANGED <<fsVars, run, exit_code, initial_photos, initial_videos, media_class,
                   files_in_root, idx, filename, date, success, error_message, results, log,
                   failures, prev, harnessVars>>

\* The script is started again on the same directories.
start_next_run ==
    /\ pc \in {"done", "exited", "interrupted"}
    /\ run < MaxRuns
    /\ run' = run + 1
    /\ prev' = RunRecord
    /\ pc' = "check_dependencies"
    /\ exit_code' = NotExited
    /\ initial_photos' = 0
    /\ initial_videos' = 0
    /\ media_class' = "photo"
    /\ files_in_root' = <<>>
    /\ idx' = 1
    /\ filename' = <<>>
    /\ date' = None
    /\ success' = FALSE
    /\ error_message' = "Unknown error"
    /\ results' = NewResults
    /\ log' = NewLog
    /\ UNCHANGED <<fsVars, failures, harnessVars>>

(***************************************************************************)
(* process_files: the photo pass, then the video pass                      *)
(***************************************************************************)
\* A move that returns without having moved anything.
shutil_move_nothing(src_dir, dst_dir, name, ok) == <<src_dir, dst_dir>>

\* A copy in place of the move: the name stays in the directory it came from.
shutil_copy(src_dir, dst_dir, name, ok) ==
    IF ok THEN <<src_dir, dst_dir \cup {name}>> ELSE <<src_dir, dst_dir>>

\* shutil.move of a name from one directory to another: done, or an error that
\* leaves both directories as they were.
shutil_move(src_dir, dst_dir, name, ok) ==
    IF ok THEN <<src_dir \ {name}, dst_dir \cup {name}>> ELSE <<src_dir, dst_dir>>

\* files_in_root = [f for f in os.listdir(root_dir) if os.path.isfile(...)], taken
\* once at the start of each pass.
process_files_list ==
    /\ pc = "list"
    /\ files_in_root' \in Listings(root)
    /\ idx' = 1
    /\ pc' = "loop"
    /\ UNCHANGED <<fsVars, run, exit_code, initial_photos, initial_videos, media_class,
                   filename, date, success, error_message, results, log, failures, prev, harnessVars>>

\* The listing is exhausted: the video pass follows the photo pass, and the
\* results are returned to main after the video pass.
pass_finished ==
    /\ pc = "loop"
    /\ idx > Len(files_in_root)
    /\ IF media_class = "photo"
       THEN media_class' = "video" /\ pc' = "list"
       ELSE media_class' = media_class /\ pc' = "summary"
    /\ UNCHANGED <<fsVars, run, exit_code, initial_photos, initial_videos, files_in_root, idx,
                   filename, date, success, error_message, results, log, failures, prev, harnessVars>>

\* `continue` for a name without the pass's extension.
skip_other_extension ==
    /\ pc = "loop"
    /\ idx <= Len(files_in_root)
    /\ ~IsMediaOf(files_in_root[idx], media_class)
    /\ idx' = idx + 1
    /\ UNCHANGED <<fsVars, pc, run, exit_code, initial_photos, initial_videos, media_class,
                   files_in_root, filename, date, success, error_message, results, log, failures,
                   prev, harnessVars>>

\* The skip check placed after `results['total_processed'] += 1`.
skip_after_counting ==
    /\ pc = "loop"
    /\ idx <= Len(files_in_root)
    /\ IsMediaOf(files_in_root[idx], media_class)
    /\ AlreadyInOutput(files_in_root[idx], media_class)
    /\ results' = [results EXCEPT !.skipped_already_in_output = @ + 1,
                                  !.total_processed = @ + 1]
    /\ idx' = idx + 1
    /\ UNCHANGED <<fsVars, pc, run, exit_code, initial_photos, initial_videos, media_class,
                   files_in_root, filename, date, success, error_message, log, failures,
                   prev, harnessVars>>

\* The name is already in an output folder: count it as skipped and `continue`.
skip_already_in_output ==
    /\ pc = "loop"
    /\ idx <= Len(files_in_root)
    /\ IsMediaOf(files_in_root[idx], media_class)
    /\ AlreadyInOutput(files_in_root[idx], media_class)
    /\ results' = [results EXCEPT !.skipped_already_in_output = @ + 1]
    /\ idx' = idx + 1
    /\ UNCHANGED <<fsVars, pc, run, exit_code, initial_photos, initial_videos, media_class,
                   files_in_root, filename, date, success, error_message, log, failures,
                   prev, harnessVars>>

\* The file is attempted: total_processed += 1, success = False,
\* error_message = "Unknown error".
begin_attempt ==
    /\ pc = "loop"
    /\ idx <= Len(files_in_root)
    /\ IsMediaOf(files_in_root[idx], media_class)
    /\ ~AlreadyInOutput(files_in_root[idx], media_class)
    /\ results' = [results EXCEPT !.total_processed = @ + 1]
    /\ filename' = files_in_root[idx]
    /\ date' = None
    /\ success' = FALSE
    /\ error_message' = "Unknown error"
    /\ pc' = "resolve"
    /\ log' = [log EXCEPT !.fault = "none"]
    /\ UNCHANGED <<fsVars, run, exit_code, initial_photos, initial_videos, media_class,
                   files_in_root, idx, failures, prev, harnessVars>>

\* The metadata is read whatever the filename gave.
NeedsMetadataAlways(filename_date) == TRUE

\* `if date is None:` after the filename parser: whether the metadata is read.
NeedsMetadata(filename_date) == filename_date = None

\* date = extract_date_from_filename(stem) gave a date: the metadata is not read.
resolve_from_filename ==
    /\ pc = "resolve"
    /\ LET filename_date == extract_date_from_filename(splitext_stem(filename))
       IN /\ ~NeedsMetadata(filename_date)
          /\ date' = filename_date
    /\ log' = [log EXCEPT !.extract = @ \cup {filename}]
    /\ pc' = IF date' # None THEN "write" ELSE "record"
    /\ error_message' =
           IF date' = None THEN "Could not determine date from filename or metadata"
           ELSE error_message
    /\ UNCHANGED <<fsVars, run, exit_code, initial_photos, initial_videos, media_class,
                   files_in_root, idx, filename, success, results, failures, prev,
                   harnessVars>>

\* The filename gave no date: get_file_metadata, then the loop over date_fields.
\* Without metadata the error is the read failure; with metadata and no usable
\* field it is the undetermined date.
resolve_from_metadata ==
    /\ pc = "resolve"
    /\ LET filename_date == extract_date_from_filename(splitext_stem(filename))
       IN /\ NeedsMetadata(filename_date)
          /\ \E metadata \in MetadataOutcomes :
                LET found == IF Truthy(metadata)
                             THEN resolve_metadata_date(metadata, media_class)
                             ELSE None
                IN /\ metadata = None => failures < MaxFailures
                   /\ failures' = IF metadata = None THEN failures + 1 ELSE failures
                   /\ date' = IF found # None THEN found ELSE filename_date
                   /\ error_message' =
                          IF ~Truthy(metadata) THEN "Failed to read metadata (ExifTool)"
                          ELSE IF date' = None
                               THEN "Could not determine date from filename or metadata"
                               ELSE error_message
                   /\ log' = [log EXCEPT
                                 !.extract = @ \cup {filename},
                                 !.read = @ \cup {filename},
                                 !.fault = IF metadata = None THEN "read"
                                           ELSE IF found = None THEN "unresolvable" ELSE @]
    /\ pc' = IF date' # None THEN "write" ELSE "record"
    /\ UNCHANGED <<fsVars, run, exit_code, initial_photos, initial_videos, media_class,
                   files_in_root, idx, filename, success, results, prev, harnessVars>>

\* The move into the success directory follows whatever set_file_dates returned.
write_failure_ignored == "move"

\* Where the loop body goes when set_file_dates returned False: past the move,
\* to the failed branch.
after_write_failure == "record"

\* `if date:` set_file_dates(filepath, date), which ExifTool carries out or not.
write_dates ==
    /\ pc = "write"
    /\ \E ok \in BOOLEAN :
          /\ ~ok => failures < MaxFailures
          /\ failures' = IF ok THEN failures ELSE failures + 1
          /\ log' = [log EXCEPT !.write = @ \cup {<<filename, date>>},
                                !.fault = IF ok THEN @ ELSE "write"]
          /\ IF ok
             THEN pc' = "move" /\ UNCHANGED error_message
             ELSE /\ pc' = after_write_failure
                  /\ error_message' = "Failed to set metadata dates (ExifTool)"
    /\ UNCHANGED <<fsVars, run, exit_code, initial_photos, initial_videos, media_class,
                   files_in_root, idx, filename, date, success, results, prev, harnessVars>>

\* success = True placed before the move.
success_before_move(moved) == TRUE

\* `success = True` is the statement after shutil.move: it is reached only when
\* the move raised nothing.
success_after_move(moved) == moved

\* The source file is gone when shutil.move looks for it.
source_vanished(src_dir, name) == src_dir \ {name}

\* shutil.move(filepath, <success directory>/filename), then success = True. The
\* move is carried out, or raises an error that leaves the directories as they
\* were (caught by `except Exception`), or finds the source file gone (caught by
\* `except FileNotFoundError`); the message of the second carries str(e) and the
\* message of the third the file name, which the failed entry holds next to it.
move_to_success ==
    /\ pc = "move"
    /\ \E outcome \in {"moved", "error", "vanished"} :
          LET ok == outcome = "moved"
              src == IF outcome = "vanished" THEN source_vanished(root, filename) ELSE root
          IN /\ ~ok => failures < MaxFailures
             /\ failures' = IF ok THEN failures ELSE failures + 1
             /\ IF media_class = "photo"
                THEN /\ root' = shutil_move(src, out_photos, filename, ok)[1]
                     /\ out_photos' = shutil_move(src, out_photos, filename, ok)[2]
                     /\ UNCHANGED out_videos
                ELSE /\ root' = shutil_move(src, out_videos, filename, ok)[1]
                     /\ out_videos' = shutil_move(src, out_videos, filename, ok)[2]
                     /\ UNCHANGED out_photos
             /\ success' = success_after_move(ok)
             /\ error_message' =
                    CASE outcome = "moved" -> error_message
                      [] outcome = "error" -> "Unexpected processing error"
                      [] outcome = "vanished" ->
                             "Source file not found during processing (moved or deleted?)"
             /\ log' =
                    CASE outcome = "moved" ->
                             [log EXCEPT !.move = @ \cup {<<filename, media_class>>},
                                         !.moves = Append(@, <<filename, media_class>>)]
                      [] outcome = "error" ->
                             [log EXCEPT !.move_errors = @ + 1, !.fault = "relocation"]
                      [] outcome = "vanished" ->
                             [log EXCEPT !.vanished = @ \cup {filename}, !.fault = "relocation"]
    /\ pc' = "record"
    /\ UNCHANGED <<out_failed, summary, exiftool_exe, exiftool_files, run, exit_code,
                   initial_photos, initial_videos, media_class, files_in_root, idx, filename,
                   date, results, prev, harnessVars>>

\* The success branch without `results['total_success'] += 1`.
record_success_total_uncounted ==
    /\ pc = "record"
    /\ success
    /\ results' = [results EXCEPT
                      !.successful = Append(@, filename),
                      !.processed_photos = IF media_class = "photo" THEN @ + 1 ELSE @,
                      !.processed_videos = IF media_class = "video" THEN @ + 1 ELSE @]
    /\ idx' = idx + 1
    /\ pc' = "loop"
    /\ UNCHANGED <<fsVars, run, exit_code, initial_photos, initial_videos, media_class,
                   files_in_root, filename, date, success, error_message, log, failures,
                   prev, harnessVars>>

\* `if success:` the file is added to the successful list and counters.
record_success ==
    /\ pc = "record"
    /\ success
    /\ results' = [results EXCEPT
                      !.successful = Append(@, filename),
                      !.total_success = @ + 1,
                      !.processed_photos = IF media_class = "photo" THEN @ + 1 ELSE @,
                      !.processed_videos = IF media_class = "video" THEN @ + 1 ELSE @]
    /\ idx' = idx + 1
    /\ pc' = "loop"
    /\ UNCHANGED <<fsVars, run, exit_code, initial_photos, initial_videos, media_class,
                   files_in_root, filename, date, success, error_message, log, failures,
                   prev, harnessVars>>

\* The first failure ends the run: the file is recorded and the script exits.
record_failure_fatal ==
    /\ pc = "record"
    /\ ~success
    /\ results' = [results EXCEPT !.failed = Append(@, <<filename, error_message>>),
                                  !.total_failed = @ + 1]
    /\ log' = [log EXCEPT !.faults = Append(@, <<filename, log.fault>>)]
    /\ pc' = "exited"
    /\ exit_code' = <<1>>
    /\ UNCHANGED <<fsVars, run, initial_photos, initial_videos, media_class, files_in_root,
                   idx, filename, date, success, error_message, failures, prev, harnessVars>>

\* A failed file is left where it is.
move_failed_file_omitted(name, ok) == <<root, out_failed>>

\* The move of a failed file into output/failed.
move_failed_file(name, ok) == shutil_move(root, out_failed, name, ok)

\* `else:` the file is added to the failed list and counters, and moved to
\* output/failed if it still exists; an error of that move is only printed.
record_failure ==
    /\ pc = "record"
    /\ ~success
    /\ results' = [results EXCEPT
                      !.failed = Append(@, <<filename, error_message>>),
                      !.total_failed = @ + 1,
                      !.failed_photos = IF media_class = "photo" THEN @ + 1 ELSE @,
                      !.failed_videos = IF media_class = "video" THEN @ + 1 ELSE @]
    /\ IF filename \in root
       THEN \E ok \in BOOLEAN :
               /\ ~ok => failures < MaxFailures
               /\ failures' = IF ok THEN failures ELSE failures + 1
               /\ root' = move_failed_file(filename, ok)[1]
               /\ out_failed' = move_failed_file(filename, ok)[2]
               /\ log' = IF ok
                         THEN [log EXCEPT !.move = @ \cup {<<filename, "failed">>},
                                          !.moves = Append(@, <<filename, "failed">>),
                                          !.faults = Append(@, <<filename, log.fault>>)]
                         ELSE [log EXCEPT !.move_errors = @ + 1,
                                          !.faults = Append(@, <<filename, log.fault>>)]
       ELSE /\ log' = [log EXCEPT !.faults = Append(@, <<filename, log.fault>>)]
            /\ UNCHANGED <<root, out_failed, failures>>
    /\ idx' = idx + 1
    /\ pc' = "loop"
    /\ UNCHANGED <<out_photos, out_videos, summary, exiftool_exe, exiftool_files, run,
                   exit_code, initial_photos, initial_videos, media_class, files_in_root,
                   filename, date, success, error_message, prev, harnessVars>>

(***************************************************************************)
(* The run of the script                                                   *)
(***************************************************************************)
Next ==
    \/ main_check_dependencies
    \/ main_count_media_files
    \/ process_files_list
    \/ pass_finished
    \/ skip_other_extension
    \/ skip_already_in_output
    \/ begin_attempt
    \/ resolve_from_filename
    \/ resolve_from_metadata
    \/ write_dates
    \/ move_to_success
    \/ record_success
    \/ record_failure
    \/ main_write_summary
    \/ start_next_run

Spec == Init /\ [][Next]_vars

\* The runs of the script when a run can be killed and the script started again.
NextRestart ==
    \/ Next
    \/ run_interrupted

\* The first run finds ExifTool installed and no file in the photos and videos
\* directories yet: the names the output directories come to hold there are the
\* ones the runs move in.
InitRestart ==
    /\ Init
    /\ all_dependencies_met
    /\ out_photos = {}
    /\ out_videos = {}

SpecRestart == InitRestart /\ [][NextRestart]_vars

\* One run of the script, from its start to its exit.
RunStep ==
    \/ main_check_dependencies
    \/ main_count_media_files
    \/ process_files_list
    \/ pass_finished
    \/ skip_other_extension
    \/ skip_already_in_output
    \/ begin_attempt
    \/ resolve_from_filename
    \/ resolve_from_metadata
    \/ write_dates
    \/ move_to_success
    \/ record_success
    \/ record_failure
    \/ main_write_summary

\* The states in which the run can take a step: every one before its exit.
RunCanStep == pc \notin {"done", "exited", "interrupted"}

\* The script runs on one thread and each of its steps returns, so a run that
\* can take a step takes it. The condition is WF_vars(RunStep), with RunCanStep
\* written for ENABLED <<RunStep>>_vars.
SpecLive == Init /\ [][RunStep]_vars /\ ([]<>(~RunCanStep) \/ []<><<RunStep>>_vars)

(***************************************************************************)
(* The two parsers applied on their own to bounded sets of inputs          *)
(***************************************************************************)
\* The run driver at rest while a parser is applied on its own.
RunIdle ==
    /\ root = {}
    /\ out_photos = {}
    /\ out_videos = {}
    /\ out_failed = {}
    /\ summary = NoSummary
    /\ exiftool_exe = TRUE
    /\ exiftool_files = "populated"
    /\ run = 1
    /\ failures = 0
    /\ prev = [outcome |-> "none"]
    /\ pc = "idle"
    /\ exit_code = NotExited
    /\ initial_photos = 0
    /\ initial_videos = 0
    /\ media_class = "photo"
    /\ files_in_root = <<>>
    /\ idx = 1
    /\ filename = <<>>
    /\ date = None
    /\ success = FALSE
    /\ error_message = "Unknown error"
    /\ results = NewResults
    /\ log = NewLog

\* A result that has not been computed yet; <<r>> once the parser returned r.
NotApplied == <<>>

\* Date tokens of a stem, each with the numbers it denotes and whether it is eight
\* digits that form a calendar date.
DateTokens ==
    { [text |-> <<"2","0","2","3","0","1","1","5">>, valid |-> TRUE, y |-> 2023, m |-> 1, d |-> 15],
      [text |-> <<"2","0","2","4","0","2","2","9">>, valid |-> TRUE, y |-> 2024, m |-> 2, d |-> 29],
      [text |-> <<"2","0","2","3","0","2","2","9">>, valid |-> FALSE, y |-> 2023, m |-> 2, d |-> 29],
      [text |-> <<"1","9","0","0","0","2","2","9">>, valid |-> FALSE, y |-> 1900, m |-> 2, d |-> 29],
      [text |-> <<"2","0","0","0","0","2","2","9">>, valid |-> TRUE, y |-> 2000, m |-> 2, d |-> 29],
      [text |-> <<"2","0","2","3","1","3","0","1">>, valid |-> FALSE, y |-> 2023, m |-> 13, d |-> 1],
      [text |-> <<"2","0","2","3","0","0","1","0">>, valid |-> FALSE, y |-> 2023, m |-> 0, d |-> 10],
      [text |-> <<"2","0","2","3","1","2","0","0">>, valid |-> FALSE, y |-> 2023, m |-> 12, d |-> 0],
      [text |-> <<"2","0","2","3","0","4","3","1">>, valid |-> FALSE, y |-> 2023, m |-> 4, d |-> 31],
      [text |-> <<"2","0","2","3","1","2","3","1">>, valid |-> TRUE, y |-> 2023, m |-> 12, d |-> 31],
      [text |-> <<"0","0","0","0","0","1","0","1">>, valid |-> FALSE, y |-> 0, m |-> 1, d |-> 1],
      [text |-> <<"2","0","2","3","O","1","1","5">>, valid |-> FALSE, y |-> 2023, m |-> 0, d |-> 115],
      [text |-> <<"2","0","2","3","0","1","1">>, valid |-> FALSE, y |-> 2023, m |-> 0, d |-> 11] }

\* The parts a stem is put together from.
StemParts ==
    [lead   : {<<>>, <<"x">>},
     tag    : {<<"I", "M", "G">>, <<"V", "I", "D">>, <<"P", "T", "V">>, <<"i", "m", "g">>,
               <<"D", "S", "C">>, <<>>},
     sep    : {<<"-">>, <<"_">>},
     token  : DateTokens,
     marker : {<<"-", "W", "A">>, <<"-", "W", "B">>, <<"W", "A">>},
     digits : {<<>>, <<"7">>, <<"0", "0", "4", "2">>},
     tail   : {<<>>, <<"x">>, <<" ", "(", "1", ")">>, <<"-", "1">>}]

StemOf(parts) ==
    parts.lead \o parts.tag \o parts.sep \o parts.token.text \o parts.marker \o parts.digits
        \o parts.tail

InitParser ==
    /\ parser_input \in StemParts
    /\ parser_result = NotApplied
    /\ resolver_input = None
    /\ resolver_result = None
    /\ RunIdle

\* date = extract_date_from_filename(stem)
apply_filename_parser ==
    /\ parser_result = NotApplied
    /\ parser_result' = <<extract_date_from_filename(StemOf(parser_input))>>
    /\ UNCHANGED <<fsVars, runVars, parser_input, resolver_input, resolver_result>>

NextParser == apply_filename_parser

SpecParser == InitParser /\ [][NextParser]_vars

DigitChar(n) ==
    CASE n = 0 -> "0" [] n = 1 -> "1" [] n = 2 -> "2" [] n = 3 -> "3" [] n = 4 -> "4"
      [] n = 5 -> "5" [] n = 6 -> "6" [] n = 7 -> "7" [] n = 8 -> "8" [] n = 9 -> "9"

\* A number as two or four digits, as ExifTool prints the components of a date.
Pad2(n) == <<DigitChar((n \div 10) % 10), DigitChar(n % 10)>>

Pad4(n) == Pad2(n \div 100) \o Pad2(n % 100)

\* Field values of the metadata records used for the field order.
ValueColonOffset == <<"2","0","2","2",":","0","6",":","0","1"," ","1","0",":","2","3",":","4","5","+","0","2",":","0","0">>

ValueColonPlain == <<"2","0","2","1",":","1","2",":","3","1"," ","2","3",":","5","9",":","5","9">>

ValueZeroDate == <<"0","0","0","0",":","0","0",":","0","0"," ","0","0",":","0","0",":","0","0">>

ValueHyphen == <<"2","0","2","0","-","0","2","-","2","9"," ","0","8",":","0","0",":","0","0">>

FieldValues == {ValueColonOffset, ValueColonPlain, ValueZeroDate, ValueHyphen, <<>>}

\* Field names of those records: in both priority lists, in one of them, in none.
RecordFields ==
    {"CreationDate", "DateTimeOriginal", "SubSecCreateDate", "ModifyDate", "GPSDateTime"}

\* Every record over some of RecordFields with values of FieldValues.
MetadataRecords ==
    UNION {[fields -> FieldValues] : fields \in SUBSET RecordFields}

\* The parts a timestamp value is put together from: date and time numbers with
\* whether they form a timestamp, the delimiter of the date, and the suffixes.
TimestampParts ==
    [delim : {":", "-"},
     ymd   : {[y |-> 2022, m |-> 6, d |-> 1, valid |-> TRUE],
              [y |-> 2024, m |-> 2, d |-> 29, valid |-> TRUE],
              [y |-> 2023, m |-> 2, d |-> 29, valid |-> FALSE],
              [y |-> 2022, m |-> 13, d |-> 1, valid |-> FALSE]},
     hms   : {[H |-> 10, M |-> 23, S |-> 45, valid |-> TRUE],
              [H |-> 0, M |-> 0, S |-> 0, valid |-> TRUE],
              [H |-> 23, M |-> 59, S |-> 59, valid |-> TRUE],
              [H |-> 24, M |-> 0, S |-> 0, valid |-> FALSE]},
     frac  : {<<>>, <<".", "1", "2", "3">>, <<".", "5">>},
     zone  : {<<>>, <<"+", "0", "2", ":", "0", "0">>, <<"-", "0", "5", ":", "0", "0">>, <<"Z">>},
     order : {"fraction first", "zone first"}]

\* 'YYYY:MM:DD HH:MM:SS' or 'YYYY-MM-DD HH:MM:SS'
BareTimestamp(parts) ==
    Pad4(parts.ymd.y) \o <<parts.delim>> \o Pad2(parts.ymd.m) \o <<parts.delim>>
        \o Pad2(parts.ymd.d) \o <<" ">> \o Pad2(parts.hms.H) \o <<":">> \o Pad2(parts.hms.M)
        \o <<":">> \o Pad2(parts.hms.S)

TimestampOf(parts) ==
    BareTimestamp(parts)
        \o (IF parts.order = "fraction first" THEN parts.frac \o parts.zone
            ELSE parts.zone \o parts.frac)

\* The resolver's inputs: a media class with a record for the field order, or
\* with a record whose DateTimeOriginal is a timestamp put together from parts.
ResolverInputs ==
    {[class |-> c, kind |-> "record", metadata |-> r, parts |-> None] :
        c \in {"photo", "video"}, r \in MetadataRecords}
    \cup
    {[class |-> c, kind |-> "timestamp", metadata |-> [DateTimeOriginal |-> TimestampOf(p)],
      parts |-> p] : c \in {"photo", "video"}, p \in TimestampParts}

InitResolver ==
    /\ resolver_input \in ResolverInputs
    /\ resolver_result = NotApplied
    /\ parser_input = None
    /\ parser_result = None
    /\ RunIdle

\* The loop over date_fields on the record.
apply_metadata_resolver ==
    /\ resolver_result = NotApplied
    /\ resolver_result' = <<resolve_metadata_date(resolver_input.metadata, resolver_input.class)>>
    /\ UNCHANGED <<fsVars, runVars, parser_input, parser_result, resolver_input>>

NextResolver == apply_metadata_resolver

SpecResolver == InitResolver /\ [][NextResolver]_vars

(***************************************************************************)
(* Properties of the filename date parser (under SpecParser)               *)
(***************************************************************************)
\* A calendar date at the fixed time of day 15:00:00.
CanonicalDate(y, m, d) ==
    [year |-> y, month |-> m, day |-> d, hour |-> 15, minute |-> 0, second |-> 0]

\* The stem begins with tag, '-', date token, '-WA' and at least one digit.
StemBeginsWithPattern(parts) ==
    /\ parts.lead = <<>>
    /\ parts.tag \in {<<"I", "M", "G">>, <<"V", "I", "D">>, <<"P", "T", "V">>}
    /\ parts.sep = <<"-">>
    /\ parts.marker = <<"-", "W", "A">>
    /\ parts.digits # <<>>

\* The stem is the pattern and nothing else.
StemIsPattern(parts) == StemBeginsWithPattern(parts) /\ parts.tail = <<>>

\* C5 as stated: a stem that is the pattern with a valid calendar date gives that
\* date at 15:00:00, and every other stem, one with extra characters after the
\* numeric suffix included, gives None.
C5_AsStated ==
    parser_result # NotApplied =>
        parser_result[1] =
            IF StemIsPattern(parser_input) /\ parser_input.token.valid
            THEN CanonicalDate(parser_input.token.y, parser_input.token.m, parser_input.token.d)
            ELSE None

\* C5 amended: a stem that begins with the pattern (whatever follows the numeric
\* suffix) and whose eight digits form a valid calendar date gives that date at
\* 15:00:00; a stem that does not begin with the pattern, or whose digits form no
\* calendar date, gives None.
C5_PrefixPatternGivesDate ==
    parser_result # NotApplied =>
        parser_result[1] =
            IF StemBeginsWithPattern(parser_input) /\ parser_input.token.valid
            THEN CanonicalDate(parser_input.token.y, parser_input.token.m, parser_input.token.d)
            ELSE None

\* A stem with characters after the numeric suffix has been given its date.
C5_Witness ==
    /\ parser_result # NotApplied
    /\ StemBeginsWithPattern(parser_input)
    /\ parser_input.tail # <<>>
    /\ parser_input.token.valid
    /\ parser_result[1] # None

(***************************************************************************)
(* Properties of the metadata date resolver (under SpecResolver)           *)
(***************************************************************************)
PriorityList(class) == IF class = "photo" THEN PhotoDateFields ELSE VideoDateFields

\* The date one field value parses to on its own, or None.
ValueDate(value, class) == parse_date_string(date_str_clean(value), date_formats(class), 1)

\* The positions of the priority list whose field is present, not empty and parseable.
ParseablePositions(input) ==
    {k \in 1..Len(PriorityList(input.class)) :
        LET field == PriorityList(input.class)[k]
        IN /\ field \in DOMAIN input.metadata
           /\ input.metadata[field] # <<>>
           /\ ValueDate(input.metadata[field], input.class) # None}

FirstParseable(input) ==
    CHOOSE k \in ParseablePositions(input) : \A j \in ParseablePositions(input) : k <= j

\* C6: when some field of the class's priority list has a parseable value, the
\* resolved date is that of the first such field in priority order, whatever
\* later fields hold; absent, empty and unparseable fields are passed over, and
\* without a parseable field there is no date.
C6_FirstParseableFieldWins ==
    resolver_result # NotApplied =>
        IF ParseablePositions(resolver_input) # {}
        THEN resolver_result[1] =
                 ValueDate(resolver_input.metadata[
                               PriorityList(resolver_input.class)[FirstParseable(resolver_input)]],
                           resolver_input.class)
        ELSE resolver_result[1] = None

\* Two fields are parseable to different dates, an unparseable field comes before
\* both, and the date is the one of the earlier parseable field.
C6_Witness ==
    /\ resolver_result # NotApplied
    /\ resolver_input.kind = "record"
    /\ \E j, k \in ParseablePositions(resolver_input) :
          /\ j < k
          /\ j = FirstParseable(resolver_input)
          /\ \E u \in 1..(j - 1) :
                PriorityList(resolver_input.class)[u] \in DOMAIN resolver_input.metadata
          /\ ValueDate(resolver_input.metadata[PriorityList(resolver_input.class)[j]],
                       resolver_input.class)
             # ValueDate(resolver_input.metadata[PriorityList(resolver_input.class)[k]],
                         resolver_input.class)
          /\ resolver_result[1] =
                 ValueDate(resolver_input.metadata[PriorityList(resolver_input.class)[j]],
                           resolver_input.class)

\* The input is a timestamp with the given date delimiter whose numbers form a
\* timestamp.
ValidTimestamp(input, delim) ==
    /\ input.kind = "timestamp"
    /\ input.parts.delim = delim
    /\ input.parts.ymd.valid
    /\ input.parts.hms.valid

\* C7 as stated: a value 'YYYY-MM-DD HH:MM:SS' with a valid date resolves to that
\* date at 15:00:00, as the colon-delimited form does, for photos and videos.
C7_HyphenDelimitedResolves ==
    ( /\ resolver_result # NotApplied
      /\ ValidTimestamp(resolver_input, "-")
      /\ resolver_input.parts.frac = <<>>
      /\ resolver_input.parts.zone = <<>> )
    => resolver_result[1] = CanonicalDate(resolver_input.parts.ymd.y, resolver_input.parts.ymd.m,
                                          resolver_input.parts.ymd.d)

\* C8: a colon-delimited timestamp followed by any combination of a fraction and
\* a zone suffix is normalized to the bare 'YYYY:MM:DD HH:MM:SS', and resolves
\* to its year, month and day at 15:00:00.
C8_SuffixesStripped ==
    (resolver_result # NotApplied /\ ValidTimestamp(resolver_input, ":"))
    => /\ date_str_clean(resolver_input.metadata.DateTimeOriginal)
              = BareTimestamp(resolver_input.parts)
       /\ resolver_result[1] = CanonicalDate(resolver_input.parts.ymd.y,
                                             resolver_input.parts.ymd.m,
                                             resolver_input.parts.ymd.d)

\* A timestamp with both a fraction and a zone offset has been resolved.
C8_Witness ==
    /\ resolver_result # NotApplied
    /\ ValidTimestamp(resolver_input, ":")
    /\ resolver_input.parts.frac # <<>>
    /\ resolver_input.parts.zone = <<"+", "0", "2", ":", "0", "0">>
    /\ resolver_input.parts.hms.H = 10
    /\ resolver_result[1] = CanonicalDate(resolver_input.parts.ymd.y, resolver_input.parts.ymd.m,
                                          resolver_input.parts.ymd.d)

(***************************************************************************)
(* Properties of the run (under Spec)                                      *)
(***************************************************************************)
\* The loop is at a file of the pass's class, about to make its skip check.
AtMediaFile == pc = "loop" /\ idx <= Len(files_in_root) /\ IsMediaOf(files_in_root[idx], media_class)

\* The step neither resolves, writes nor moves anything: the loop goes on to the
\* next name with all directories and all calls as they were.
StepLeavesFileAlone ==
    /\ pc' = "loop"
    /\ idx' = idx + 1
    /\ log' = log
    /\ root' = root
    /\ out_photos' = out_photos
    /\ out_videos' = out_videos
    /\ out_failed' = out_failed

\* The file handled last by the loop.
LastHandled == files_in_root[idx - 1]

\* A run has come to its end.
RunEnded == pc \in {"done", "exited"}

\* The previous run was a full run: it counted, processed and wrote its summary.
AfterFullRun == run >= 2 /\ prev.outcome = "done"

C2_FailedNameSkipped ==
    [][(AtMediaFile /\ files_in_root[idx] \in out_failed)
       => /\ results' = [results EXCEPT !.skipped_already_in_output = @ + 1]
          /\ StepLeavesFileAlone]_vars

\* The video pass has skipped a file whose name is in the failed directory and
\* not in the videos directory.
C2_Witness ==
    /\ pc = "loop"
    /\ media_class = "video"
    /\ idx > 1
    /\ IsMediaOf(LastHandled, "video")
    /\ LastHandled \in out_failed
    /\ LastHandled \notin out_videos
    /\ LastHandled \in root
    /\ results.skipped_already_in_output > 0

\* C3 as stated: a name that exists in any of the three output directories is
\* never resolved, written or moved again.
C3_AsStated ==
    [][(AtMediaFile /\ files_in_root[idx] \in out_photos \cup out_videos \cup out_failed)
       => StepLeavesFileAlone]_vars

\* C3 amended: a name that exists in the success directory of its class or in the
\* failed directory is excluded from reprocessing in this and every later run: a
\* media root file of that name is never resolved, written or moved, and no name
\* ever leaves an output directory.
C3_FiledNameExcluded ==
    [][/\ (AtMediaFile /\ files_in_root[idx] \in SuccessDir(media_class) \cup out_failed)
          => StepLeavesFileAlone
       /\ out_photos \subseteq out_photos'
       /\ out_videos \subseteq out_videos'
       /\ out_failed \subseteq out_failed']_vars

\* A later run has skipped a file whose name is in the success directory of its
\* class.
C3_Witness ==
    /\ run >= 2
    /\ pc = "loop"
    /\ idx > 1
    /\ IsMediaOf(LastHandled, media_class)
    /\ LastHandled \in SuccessDir(media_class)
    /\ LastHandled \in root
    /\ log = NewLog
    /\ results.skipped_already_in_output > 0

\* The date the filename of each file of the catalogue gives, or None, written
\* out; C4 compares it with the filename parser.
FilenameDates ==
    (ImgWaJpg :> CanonicalDate(2023, 1, 15))
    @@ (RandomPhotoJpg :> None)
    @@ (VidWaMp4 :> CanonicalDate(2021, 7, 4))
    @@ (ClipMP4 :> None)
    @@ (NotesTxt :> None)

\* The date the filename of a file gives, or None.
FilenameDateOf(name) == FilenameDates[name]

\* C4: for an attempted file whose stem gives a date, get_file_metadata is not
\* invoked in that run, and the date passed to set_file_dates is the filename date.
C4_FilenamePrecedence ==
    /\ (run = 1 /\ pc = "check_dependencies")
          => \A f \in FileNames : FilenameDateOf(f) = extract_date_from_filename(splitext_stem(f))
    /\ \A f \in log.extract : FilenameDateOf(f) # None => f \notin log.read
    /\ \A w \in log.write : FilenameDateOf(w[1]) # None => w[2] = FilenameDateOf(w[1])
    /\ (pc \in {"write", "move"} /\ FilenameDateOf(filename) # None)
          => date = FilenameDateOf(filename)

\* set_file_dates has been called for a video with the date of its filename,
\* and the metadata of no file has been read.
C4_Witness ==
    /\ \E w \in log.write :
          /\ IsMediaOf(w[1], "video")
          /\ w[2] = CanonicalDate(2021, 7, 4)
    /\ log.read = {}

\* C9: every date passed to set_file_dates has the time of day 15:00:00,
\* whether the filename or the metadata gave it.
C9_FixedTimeOfDay ==
    /\ \A w \in log.write : w[2].hour = 15 /\ w[2].minute = 0 /\ w[2].second = 0
    /\ pc = "write" => date.hour = 15 /\ date.minute = 0 /\ date.second = 0

\* set_file_dates has been called with a date the metadata gave, whose
\* DateTimeOriginal has the time of day 10:23:45.
C9_Witness ==
    \E w \in log.write :
        /\ w[1] \in log.read
        /\ FilenameDateOf(w[1]) = None
        /\ w[2] = CanonicalDate(2022, 6, 1)

\* C10 as stated: without media files or without the metadata tool the run
\* terminates early with a non-zero exit status and processes no file, and in
\* the no-files case the diagnostic summary is written first.
C10_AsStated ==
    pc = "exited"
    => /\ exit_code # <<0>>
       /\ log = NewLog
       /\ all_dependencies_met => summary = NoFilesSummary

\* C10 amended: without the metadata tool the run terminates early with exit
\* status 1, processing no file and writing no summary; without media files it
\* writes the diagnostic summary and terminates early with exit status 0,
\* processing no file. A run gets to process files only with the tool present
\* and a media file counted.
C10_EarlyExit ==
    /\ pc = "exited"
       => /\ log = NewLog
          /\ results = NewResults
          /\ IF all_dependencies_met
             THEN /\ count_media_files(root) = <<0, 0>>
                  /\ summary = NoFilesSummary
                  /\ exit_code = <<0>>
             ELSE /\ exit_code = <<1>>
                  /\ summary = IF run = 1 THEN NoSummary ELSE prev.summary
    /\ pc \notin {"check_dependencies", "count", "exited"}
       => all_dependencies_met /\ initial_photos + initial_videos > 0
    /\ pc = "count" => all_dependencies_met
    /\ (pc = "list" /\ media_class = "photo")
       => <<initial_photos, initial_videos>> = count_media_files(root)

\* A run has exited early for want of media files, with the diagnostic summary
\* written.
C10_Witness ==
    /\ pc = "exited"
    /\ all_dependencies_met
    /\ summary = NoFilesSummary
    /\ exit_code = <<0>>

\* The names and the messages of the failed list.
FailedNames == {results.failed[i][1] : i \in DOMAIN results.failed}

SuccessfulNames == {results.successful[i] : i \in DOMAIN results.successful}

\* The messages recorded for a move into a success directory that raised.
RelocationMessages ==
    {"Unexpected processing error", "Source file not found during processing (moved or deleted?)"}

\* The loop is about to record the file in hand, whose dates were written and
\* whose move into the success directory then failed.
RecordingFailedMove == pc = "record" /\ log.fault = "relocation" /\ <<filename, date>> \in log.write

\* C11 as stated: when set_file_dates succeeds for a file and the move into the
\* success directory then fails, the file is still recorded as successful in
\* the counters and in the successful list.
C11_AsStated ==
    [][RecordingFailedMove
       => /\ results'.successful = Append(results.successful, filename)
          /\ results'.total_success = results.total_success + 1]_vars

\* C11 amended: when set_file_dates succeeds for a file and the move into the
\* success directory then fails, the file is recorded as failed, with the
\* message of the caught error, in the failed list and the failed counters, and
\* not in the successful list or counters; the move to the failed directory is
\* then tried if the file is still in the media root. A file is recorded as
\* successful only once it is in the success directory of its class.
C11_FailedMoveRecordedFailed ==
    [][/\ RecordingFailedMove
          => /\ ~success
             /\ error_message \in RelocationMessages
             /\ results'.failed = Append(results.failed, <<filename, error_message>>)
             /\ results'.total_failed = results.total_failed + 1
             /\ results'.failed_photos + results'.failed_videos
                   = results.failed_photos + results.failed_videos + 1
             /\ results'.successful = results.successful
             /\ results'.total_success = results.total_success
             /\ results'.processed_photos = results.processed_photos
             /\ results'.processed_videos = results.processed_videos
             /\ filename \in root
                   => \/ filename \in out_failed' /\ filename \notin root'
                      \/ log'.move_errors = log.move_errors + 1
       /\ (pc = "record" /\ success)
          => /\ filename \in SuccessDir(media_class)
             /\ filename \notin root
             /\ results'.successful = Append(results.successful, filename)]_vars

\* A file whose dates were written and whose move into the success directory
\* raised an error has been recorded as failed and moved to the failed directory.
C11_Witness ==
    /\ pc = "loop"
    /\ idx > 1
    /\ log.faults # <<>>
    /\ log.faults[Len(log.faults)] = <<LastHandled, "relocation">>
    /\ \E w \in log.write : w[1] = LastHandled
    /\ LastHandled \in FailedNames
    /\ LastHandled \notin SuccessfulNames
    /\ LastHandled \in out_failed
    /\ results.total_success = 0

\* The fault categories of a file that is recorded as failed.
FaultCategories == {"unresolvable", "read", "write", "relocation"}

\* The failed list holds one (filename, message) entry per fault met so far, in
\* the order the faults were met, and total_failed counts them.
OneEntryPerFault ==
    /\ Len(results.failed) = Len(log.faults)
    /\ results.total_failed = Len(log.faults)
    /\ results.failed_photos + results.failed_videos = Len(log.faults)
    /\ \A i \in DOMAIN log.faults :
          /\ log.faults[i][2] \in FaultCategories
          /\ results.failed[i][1] = log.faults[i][1]
          /\ \A j \in DOMAIN log.faults : log.faults[j][1] = log.faults[i][1] => j = i

\* The run has come to its summary with every media file it counted skip-checked
\* or attempted.
AllFilesHandled ==
    /\ pc = "done"
    /\ results.skipped_already_in_output + results.total_processed
          = initial_photos + initial_videos
    /\ results.total_success + results.total_failed = results.total_processed

\* C12: an unresolvable date, a metadata read failure, a metadata write failure
\* or a relocation failure (the source file found gone included) of an attempted
\* file is recorded as one (filename, message) entry of the failed list, the loop
\* goes on with the next entry of its listing, and the run that met the failure
\* comes to its end with every remaining file of both passes handled.
C12_FailuresNonFatal ==
    /\ []OneEntryPerFault
    /\ [][(pc = "record" /\ ~success)
          => /\ log.fault \in FaultCategories
             /\ results'.failed = Append(results.failed, <<filename, error_message>>)
             /\ pc' = "loop"
             /\ idx' = idx + 1
             /\ files_in_root' = files_in_root]_vars
    /\ (pc = "record" /\ ~success) ~> AllFilesHandled

\* A run has ended with a failed photo recorded and, after it, a video attempted
\* and recorded as successful.
C12_Witness ==
    /\ AllFilesHandled
    /\ Len(log.faults) = 1
    /\ IsMediaOf(log.faults[1][1], "photo")
    /\ results.processed_videos = 1
    /\ results.total_processed = 2

\* The failed file of entry i has ended where the failed branch puts it: in the
\* failed directory and out of the media root, unless the move to the failed
\* directory raised an error, which is only printed and leaves the file in place.
FailedFileFiled(i) ==
    LET f == log.faults[i][1]
    IN \/ f \in out_failed /\ f \notin root
       \/ f \in root /\ log.move_errors > 0

IsMediaName(f) == IsMediaOf(f, "photo") \/ IsMediaOf(f, "video")

\* The names the three output directories hold.
Filed == out_photos \cup out_videos \cup out_failed

\* The positions of the moves of file f in the moves of the run so far.
MovesOf(f) == {i \in DOMAIN log.moves : log.moves[i][1] = f}

\* The names of the files recorded by the run so far, as successful or failed.
RecordedNames == SuccessfulNames \cup {log.faults[i][1] : i \in DOMAIN log.faults}

\* C15 as stated: every media file discovered in the media root is moved, once,
\* into an output directory by the run: none is left in the media root when the
\* run has written its summary.
C15_AsStated ==
    pc = "done"
    => /\ \A f \in root : ~IsMediaName(f)
       /\ \A i \in DOMAIN log.moves : MovesOf(log.moves[i][1]) = {i}

\* C15 amended: every file the run attempts is moved at most once in the run,
\* from the media root into one output directory: a successful file once, into
\* the success directory of its class; a failed file once, into the failed
\* directory, or not at all when that move raised an error or the file was found
\* gone. A skipped file is not moved. No step moves more than the file in hand,
\* puts a name into the media root or takes a name out of an output directory.
C15_Lifecycle ==
    /\ [](/\ \A i \in DOMAIN log.moves :
                /\ MovesOf(log.moves[i][1]) = {i}
                /\ log.moves[i][1] \in RecordedNames \cup {filename}
                /\ log.moves[i][1] \in Filed
                /\ log.moves[i][1] \notin root
          /\ \A i \in DOMAIN results.successful :
                LET f == results.successful[i]
                IN /\ \E j \in DOMAIN log.moves :
                         log.moves[j] = <<f, IF IsMediaOf(f, "photo") THEN "photo" ELSE "video">>
                   /\ f \in (IF IsMediaOf(f, "photo") THEN out_photos ELSE out_videos)
          /\ \A i \in DOMAIN log.faults :
                LET f == log.faults[i][1]
                IN IF MovesOf(f) # {}
                   THEN \E j \in MovesOf(f) : log.moves[j][2] = "failed" /\ f \in out_failed
                   ELSE \/ f \in root /\ log.move_errors > 0
                        \/ f \in log.vanished /\ f \notin root
          /\ Len(log.moves) <= results.total_processed)
    /\ [][/\ root' \subseteq root
          /\ out_photos \subseteq out_photos'
          /\ out_videos \subseteq out_videos'
          /\ out_failed \subseteq out_failed'
          /\ Filed' \ Filed \subseteq root \ root'
          /\ root' # root => /\ pc \in {"move", "record"}
                             /\ root \ root' = {filename}
                             /\ filename \notin RecordedNames
          /\ Filed' # Filed => /\ Cardinality(Filed' \ Filed) = 1
                               /\ log'.moves = Append(log.moves, log'.moves[Len(log'.moves)])
                               /\ MovesOf(filename) = {}
          /\ (AtMediaFile /\ AlreadyInOutput(files_in_root[idx], media_class))
                => log'.moves = log.moves /\ root' = root]_vars

\* A run has ended with one media file moved, once, into the success directory
\* of its class and another, skipped, still in the media root.
C15_Witness ==
    /\ pc = "done"
    /\ Len(log.moves) = 1
    /\ results.successful = <<log.moves[1][1]>>
    /\ results.skipped_already_in_output = 1
    /\ \E f \in root : IsMediaName(f) /\ f \in Filed

\* A Photo-class name and a Video-class name.
IsPhotoName(f) == endswith(lower(f), <<".", "j", "p", "g">>)

IsVideoName(f) == endswith(lower(f), <<".", "m", "p", "4">>)

\* The loop body is at work on the file in hand.
InLoopBody == pc \in {"resolve", "write", "move", "record"}

\* The names the run has extracted a date for, moved or recorded so far.
TouchedNames == log.extract \cup {log.moves[i][1] : i \in DOMAIN log.moves} \cup RecordedNames

\* The Photo-class files of the media root are all in a terminal state: skipped
\* (the name is in the photos or the failed directory) or recorded as failed with
\* the move to the failed directory having raised an error.
PhotosTerminal ==
    /\ \A f \in root :
          IsPhotoName(f)
          => \/ f \in out_photos \cup out_failed
             \/ f \in FailedNames /\ log.move_errors > 0
    /\ results.processed_photos + results.failed_photos
         + Cardinality({f \in root : IsPhotoName(f) /\ f \in out_photos \cup out_failed})
         = initial_photos

\* C16: in a run every Photo-class file is brought to a terminal state (skipped,
\* moved to photos or recorded as failed) before any Video-class file is
\* skip-checked, resolved, written or moved: the photo pass touches no video
\* file, and the video pass starts with no photo left to handle and touches no
\* photo.
C16_PhotosBeforeVideos ==
    /\ media_class = "photo"
          => /\ \A f \in TouchedNames : IsPhotoName(f)
             /\ InLoopBody => IsPhotoName(filename)
             /\ results.processed_videos = 0 /\ results.failed_videos = 0
             /\ \A i \in DOMAIN log.moves : log.moves[i][2] # "video"
             /\ results.skipped_already_in_output
                   <= Cardinality({f \in root : IsPhotoName(f) /\ f \in out_photos \cup out_failed})
    /\ (media_class = "video" /\ pc \in {"list", "loop", "resolve", "write", "move", "record", "summary"})
          => /\ PhotosTerminal
             /\ InLoopBody => IsVideoName(filename)
    /\ results.processed_videos + results.failed_videos > 0 => media_class = "video"

\* The video pass is at work on a video after the photo pass has moved one photo
\* to the photos directory.
C16_Witness ==
    /\ media_class = "video"
    /\ pc = "write"
    /\ IsVideoName(filename)
    /\ results.processed_photos = 1
    /\ initial_photos = 1
    /\ \E f \in out_photos : f \in SuccessfulNames

\* C17: when the skip check fires for a file (its name is in the success
\* directory of the pass's class or in the failed directory), only the skip
\* counter changes: the file stays in the media root, its metadata is neither
\* read nor written, the output directories and the summary are as they were,
\* and total_processed, the success and failed counters and both lists are
\* unchanged.
C17_SkipChangesOnlyCounter ==
    [][(AtMediaFile /\ (files_in_root[idx] \in SuccessDir(media_class) \/ files_in_root[idx] \in out_failed))
       => /\ results'.skipped_already_in_output = results.skipped_already_in_output + 1
          /\ [results' EXCEPT !.skipped_already_in_output = 0]
               = [results EXCEPT !.skipped_already_in_output = 0]
          /\ files_in_root[idx] \in root'
          /\ UNCHANGED <<root, out_photos, out_videos, out_failed, summary>>
          /\ UNCHANGED <<log, failures, filename, date, success, error_message>>
          /\ UNCHANGED <<files_in_root, media_class, pc, run, exit_code>>
          /\ idx' = idx + 1]_vars

\* The photo pass of a first run has skipped a photo whose name is in the photos
\* directory: one skip is counted and nothing else has happened.
C17_Witness ==
    /\ run = 1
    /\ pc = "loop"
    /\ media_class = "photo"
    /\ idx > 1
    /\ IsPhotoName(LastHandled)
    /\ LastHandled \in out_photos
    /\ LastHandled \in root
    /\ results = [NewResults EXCEPT !.skipped_already_in_output = 1]
    /\ log = NewLog

\* The names of a listing.
Entries(listing) == {listing[i] : i \in DOMAIN listing}

\* A listing that names every file of the directory once.
IsSnapshotOf(listing, dir) ==
    /\ Entries(listing) = dir
    /\ Len(listing) = Cardinality(dir)

\* A pass is under way.
InPass == pc \in {"loop", "resolve", "write", "move", "record"}

\* C18: the files a pass iterates over are fixed by one directory listing taken
\* before the pass's first move: the listing names each file of the media root
\* once, it does not change while the pass runs whatever the pass moves, the
\* loop takes its entries one after the other, each once, and the pass ends
\* only after the last entry.
C18_SnapshotIteration ==
    /\ [](InPass
            => /\ Len(files_in_root) = Cardinality(Entries(files_in_root))
               /\ idx \in 1..(Len(files_in_root) + 1)
               /\ InLoopBody => idx <= Len(files_in_root) /\ filename = files_in_root[idx]
               /\ \A i \in idx..Len(files_in_root) :
                     (i > idx \/ pc \in {"loop", "resolve", "write"}) => files_in_root[i] \in root
               /\ \A f \in TouchedNames :
                     (media_class = "photo" \/ IsVideoName(f))
                     => \E i \in 1..idx : i <= Len(files_in_root) /\ files_in_root[i] = f)
    /\ [][/\ pc = "list" => IsSnapshotOf(files_in_root', root) /\ idx' = 1 /\ root' = root
          /\ InPass => files_in_root' = files_in_root
          /\ (InPass /\ idx' # idx) => idx' = idx + 1 /\ pc' = "loop"
          /\ (InPass /\ pc' \notin {"loop", "resolve", "write", "move", "record"})
                => idx = Len(files_in_root) + 1
          /\ (pc = "loop" /\ pc' = "resolve") => filename' = files_in_root[idx]]_vars

\* The pass is at an entry of its listing after it has moved an earlier entry
\* out of the media root: the listing still names the moved file.
C18_Witness ==
    /\ pc = "loop"
    /\ idx = 2
    /\ Len(files_in_root) = 2
    /\ files_in_root[1] \notin root
    /\ files_in_root[2] \in root
    /\ Len(log.moves) = 1
    /\ log.moves[1][1] = files_in_root[1]

\* The failure category a recorded message stands for.
CategoryOfMessage(message) ==
    CASE message = "Could not determine date from filename or metadata" -> "unresolvable"
      [] message = "Failed to read metadata (ExifTool)" -> "read"
      [] message = "Failed to set metadata dates (ExifTool)" -> "write"
      [] message \in RelocationMessages -> "relocation"
      [] OTHER -> "none"

C20_RestartRedoesNothing ==
    run >= 2
    => \A f \in prev.moved :
          /\ f \in Filed
          /\ f \notin root
          /\ f \notin log.extract
          /\ f \notin log.read
          /\ \A w \in log.write : w[1] # f
          /\ MovesOf(f) = {}
          /\ f \notin RecordedNames
          /\ InPass => f \notin Entries(files_in_root)
          /\ InLoopBody => filename # f

\* The run started after an interruption has come to its end: it has written
\* and moved the file the interrupted run had not come to, and has left alone
\* the file the interrupted run had moved.
C20_Witness ==
    /\ run = 2
    /\ prev.outcome = "interrupted"
    /\ prev.moved # {}
    /\ pc = "done"
    /\ results.total_success = 1
    /\ \E w \in log.write : w[1] \notin prev.moved
    /\ \A f \in prev.moved : f \in Filed /\ f \notin root

(***************************************************************************)
(* C21: the counters and the two lists of the results                      *)
(***************************************************************************)
\* A file is in hand: it was counted as attempted and is not recorded yet.
FileInHand == IF InLoopBody THEN 1 ELSE 0

\* No name is twice in the successful list or twice in the failed list.
ListsWithoutRepeats ==
    /\ \A i, j \in DOMAIN results.successful :
           results.successful[i] = results.successful[j] => i = j
    /\ \A i, j \in DOMAIN results.failed :
           results.failed[i][1] = results.failed[j][1] => i = j

\* C21: whenever no file is in hand, and so when process_files returns,
\* total_processed = total_success + total_failed; while a file is in hand it
\* is counted as attempted and not yet as succeeded or failed. At every point
\* total_success = processed_photos + processed_videos = the length of the
\* successful list, total_failed = failed_photos + failed_videos = the length
\* of the failed list, no name is in both lists and none is twice in one.
C21_CountersConsistent ==
    /\ results.total_processed = results.total_success + results.total_failed + FileInHand
    /\ results.total_success = results.processed_photos + results.processed_videos
    /\ results.total_success = Len(results.successful)
    /\ results.total_failed = results.failed_photos + results.failed_videos
    /\ results.total_failed = Len(results.failed)
    /\ SuccessfulNames \cap FailedNames = {}
    /\ ListsWithoutRepeats
    /\ summary.kind = "report" /\ pc = "done" =>
           /\ summary.attempted = summary.succeeded + summary.failed
           /\ summary.succeeded = summary.photos[1] + summary.videos[1]
           /\ summary.failed = summary.photos[2] + summary.videos[2]
           /\ summary.succeeded = Len(summary.ok_list)
           /\ summary.failed = Len(summary.x_list)

\* process_files has returned with a file recorded as successful and another as
\* failed.
C21_Witness ==
    /\ pc = "summary"
    /\ results.total_success = 1
    /\ results.total_failed = 1
    /\ results.total_processed = 2

(***************************************************************************)
(* C22: the initial scan against the skipped and the attempted files       *)
(***************************************************************************)
\* The number of names of the pass's class among the first k of the listing.
ClassNamesUpTo(k) ==
    Cardinality({i \in 1..k : IsMediaOf(files_in_root[i], media_class)})

\* No file of the media root disappeared under the run.
NoExternalChange == log.vanished = {}

\* C22: when nothing but the script changes the directories, at the end of a
\* complete run initial_photos + initial_videos = skipped_already_in_output +
\* total_processed, and the summary reports the same three numbers. On the
\* way there each pass accounts for every name of its class it has passed in
\* its own listing, and the photo pass has accounted for initial_photos names
\* when the video pass starts. The three listings of the media root (count,
\* photo pass, video pass) agree on the names of each class.
C22_ScanAccounted ==
    /\ (NoExternalChange /\ pc \in {"summary", "done"}) =>
           initial_photos + initial_videos =
               results.skipped_already_in_output + results.total_processed
    /\ (NoExternalChange /\ pc = "done") =>
           /\ summary.kind = "report"
           /\ summary.considered = summary.skipped + summary.attempted
           /\ summary.considered = initial_photos + initial_videos
    /\ (NoExternalChange /\ InPass) =>
           /\ results.skipped_already_in_output + results.total_processed =
                  (IF media_class = "video" THEN initial_photos ELSE 0)
                      + ClassNamesUpTo(idx - 1) + FileInHand
           /\ ClassNamesUpTo(Len(files_in_root)) =
                  (IF media_class = "video" THEN initial_videos ELSE initial_photos)

\* A complete run that skipped one of the files of its initial scan and
\* attempted the other, a photo and a video.
C22_Witness ==
    /\ pc = "done"
    /\ NoExternalChange
    /\ summary.kind = "report"
    /\ initial_photos = 1
    /\ initial_videos = 1
    /\ summary.skipped = 1
    /\ summary.attempted = 1

(***************************************************************************)
(* C23: no move onto an existing file                                      *)
(***************************************************************************)
\* The directory a logged move went to.
DirOf(dest) ==
    CASE dest = "photo" -> out_photos
      [] dest = "video" -> out_videos
      [] dest = "failed" -> out_failed

\* The same directory after the step.
DirAfter(dest) ==
    CASE dest = "photo" -> out_photos'
      [] dest = "video" -> out_videos'
      [] dest = "failed" -> out_failed'

\* The step carried out a move: the script logs one more.
MovePerformed == Len(log'.moves) = Len(log.moves) + 1

\* The move the step carried out, as <<name, destination>>.
MoveOfStep == log'.moves[Len(log'.moves)]

\* C23: every move the script performs, to photos, videos or failed and in
\* any run, takes a name that is in the media root and is not in the target
\* directory just before the move, and adds that one name to the target
\* directory; an output directory changes only by such a move, so no name in
\* an output directory is ever replaced or removed.
C23_NoOverwrite ==
    [][ /\ out_photos \subseteq out_photos'
        /\ out_videos \subseteq out_videos'
        /\ out_failed \subseteq out_failed'
        /\ <<out_photos, out_videos, out_failed>>' # <<out_photos, out_videos, out_failed>>
               => MovePerformed
        /\ MovePerformed =>
               /\ MoveOfStep[1] \in root
               /\ MoveOfStep[1] \notin DirOf(MoveOfStep[2])
               /\ DirAfter(MoveOfStep[2]) = DirOf(MoveOfStep[2]) \cup {MoveOfStep[1]}
               /\ \A dest \in {"photo", "video", "failed"} \ {MoveOfStep[2]} :
                      DirAfter(dest) = DirOf(dest) ]_vars

\* A second run has moved a file while a name that was in the failed directory
\* before the first run is still there, skipped by the run and moved by none.
C23_Witness ==
    /\ run = 2
    /\ Len(log.moves) >= 1
    /\ results.skipped_already_in_output >= 1
    /\ \E f \in out_failed :
           /\ f \in root
           /\ f \notin prev.moved
           /\ \A i \in DOMAIN log.moves : log.moves[i][1] # f

====
